---- MODULE Spec2Model ----
(***************************************************************************)
(* A model of main.py: the /analyze request handler (handle_analysis) and  *)
(* the four stages it chains: get_video_id, get_transcript, clean_srt and  *)
(* analyze_with_gemini.                                                    *)
(*                                                                         *)
(* Python strings are sequences of one-character strings, so that regular  *)
(* expression search, split, strip and join are computed character by      *)
(* character.  A Python value that may be None, a string or a raised       *)
(* exception is a record with a "kind" field.                              *)
(***************************************************************************)
EXTENDS Integers, Sequences, FiniteSets, TLC

VARIABLES
    pc,              \* where handle_analysis is: "idle", "caption_list",
                     \* "caption_download", "generate" or "done"
    data,            \* request.json, the body of the request being handled
    video_id,        \* the result of get_video_id(youtube_url)
    caption_items,   \* caption_list_response['items'] inside get_transcript
    track_id,        \* the track get_transcript selected
    srt_data,        \* the payload get_transcript returned
    transcript_text, \* the result of clean_srt(srt_data)
    response,        \* what handle_analysis returned to the caller
    trace,           \* the stages run and network calls issued, in order
    url_in,          \* a URL handed to get_video_id on its own
    id_out,          \* what get_video_id made of url_in
    srt_in,          \* a text handed to clean_srt on its own
    clean_once,      \* clean_srt(srt_in)
    clean_twice      \* clean_srt(clean_srt(srt_in))

pipeline_vars == <<pc, data, video_id, caption_items, track_id, srt_data,
                   transcript_text, response, trace>>
extract_vars == <<url_in, id_out>>
clean_vars == <<srt_in, clean_once, clean_twice>>
vars == <<pc, data, video_id, caption_items, track_id, srt_data,
          transcript_text, response, trace, url_in, id_out, srt_in,
          clean_once, clean_twice>>

----------------------------------------------------------------------------
(* Bounds of the model. *)

\* longest video identifier in the URLs handed to get_video_id on its own
MaxIdLen == 2
\* longest text handed to clean_srt on its own
MaxTextLen == 5
\* most caption tracks in one caption-list response
MaxTracks == 2

----------------------------------------------------------------------------
(* Python values. *)

None == [kind |-> "none", val |-> <<>>]
Str(s) == [kind |-> "str", val |-> s]
Raised(name) == [kind |-> "raise", val |-> name]

\* Python truthiness of None or a string: None and '' are falsy
truthy(v) == v.kind = "str" /\ v.val # <<>>

Lower == {"a","b","c","d","e","f","g","h","i","j","k","l","m","n","o","p",
          "q","r","s","t","u","v","w","x","y","z"}
Upper == {"A","B","C","D","E","F","G","H","I","J","K","L","M","N","O","P",
          "Q","R","S","T","U","V","W","X","Y","Z"}
Digit == {"0","1","2","3","4","5","6","7","8","9"}

\* the character class [a-zA-Z0-9_-]
IdChar == Lower \cup Upper \cup Digit \cup {"_", "-"}

\* lit occurs in s at position i
MatchAt(lit, s, i) ==
    /\ i >= 1
    /\ i + Len(lit) - 1 <= Len(s)
    /\ \A k \in 1..Len(lit) : s[i + k - 1] = lit[k]

\* Python's `sub in s` for strings
Contains(sub, s) == \E i \in 1..(Len(s) + 1) : MatchAt(sub, s, i)

\* the last position of the longest run of IdChar starting at i (greedy +)
RECURSIVE RunEnd(_, _)
RunEnd(s, i) ==
    IF i + 1 <= Len(s) /\ s[i + 1] \in IdChar THEN RunEnd(s, i + 1) ELSE i

----------------------------------------------------------------------------
(* get_video_id *)

\* The three patterns: src is the pattern's text as written in the source,
\* heads are the alternatives that must precede the identifier group, each
\* with the text it matches and the groups it captures on the way.
patterns == <<
    [src |-> <<"w","a","t","c","h","\\","?","v","=","(","[","a","-","z","A",
               "-","Z","0","-","9","_","-","]","+",")">>,
     heads |-> << [lit |-> <<"w","a","t","c","h","?","v","=">>,
                   caps |-> <<>>] >>],
    [src |-> <<"y","o","u","t","u","\\",".","b","e","/","(","[","a","-","z",
               "A","-","Z","0","-","9","_","-","]","+",")">>,
     heads |-> << [lit |-> <<"y","o","u","t","u",".","b","e","/">>,
                   caps |-> <<>>] >>],
    [src |-> <<"/","(","e","m","b","e","d","|","v",")","/","(","[","a","-",
               "z","A","-","Z","0","-","9","_","-","]","+",")">>,
     heads |-> << [lit |-> <<"/","e","m","b","e","d","/">>,
                   caps |-> << <<"e","m","b","e","d">> >>],
                  [lit |-> <<"/","v","/">>,
                   caps |-> << <<"v">> >>] >>] >>

\* pattern p matches s at position i through its head h
HeadMatches(p, h, s, i) ==
    /\ MatchAt(p.heads[h].lit, s, i)
    /\ i + Len(p.heads[h].lit) <= Len(s)
    /\ s[i + Len(p.heads[h].lit)] \in IdChar

MatchPositions(p, s) ==
    {i \in 1..Len(s) : \E h \in 1..Len(p.heads) : HeadMatches(p, h, s, i)}

\* re.search(pattern, s): None, or the groups of the leftmost match
re_search(p, s) ==
    IF MatchPositions(p, s) = {} THEN <<>>
    ELSE LET i == CHOOSE j \in MatchPositions(p, s) :
                      \A k \in MatchPositions(p, s) : j <= k
             h == CHOOSE g \in 1..Len(p.heads) :
                      /\ HeadMatches(p, g, s, i)
                      /\ \A f \in 1..(g - 1) : ~HeadMatches(p, f, s, i)
             from == i + Len(p.heads[h].lit)
         IN  << p.heads[h].caps \o << SubSeq(s, from, RunEnd(s, from)) >> >>

\* match.group(n): IndexError when the pattern has no group n
group(m, n) ==
    IF n <= Len(m) THEN Str(m[n]) ELSE Raised("IndexError")

\* the group get_video_id reads from a match of pattern p (line 34)
group_index(p) ==
    IF \/ Contains(<<"w","a","t","c","h">>, p.src)
       \/ Contains(<<"y","o","u","t","u",".","b","e">>, p.src)
    THEN 1 ELSE 2

RECURSIVE video_id_from(_, _)
video_id_from(k, youtube_url) ==
    IF k > Len(patterns) THEN None
    ELSE LET m == re_search(patterns[k], youtube_url)
         IN  IF m # <<>> THEN group(m[1], group_index(patterns[k]))
             ELSE video_id_from(k + 1, youtube_url)

get_video_id(youtube_url) == video_id_from(1, youtube_url)

----------------------------------------------------------------------------
(* clean_srt *)

\* the characters str.strip() removes that the model's texts contain
Space == {" ", "\t", "\r", "\n"}

\* srt_text.split('\n')
RECURSIVE split(_)
split(s) ==
    IF \A i \in 1..Len(s) : s[i] # "\n" THEN <<s>>
    ELSE LET i == CHOOSE j \in 1..Len(s) :
                      s[j] = "\n" /\ \A k \in 1..(j - 1) : s[k] # "\n"
         IN  <<SubSeq(s, 1, i - 1)>> \o split(SubSeq(s, i + 1, Len(s)))

\* line.isdigit()
isdigit(line) == Len(line) > 0 /\ \A i \in 1..Len(line) : line[i] \in Digit

\* line.strip()
RECURSIVE strip(_)
strip(line) ==
    IF line = <<>> THEN line
    ELSE IF Head(line) \in Space THEN strip(Tail(line))
    ELSE IF line[Len(line)] \in Space THEN strip(SubSeq(line, 1, Len(line) - 1))
    ELSE line

\* the first loop of clean_srt (lines 86-90): whether a line is skipped
skipped(line) ==
    \/ isdigit(line)
    \/ Contains(<<"-","-",">">>, line)
    \/ strip(line) = <<>>

RECURSIVE transcript_lines(_)
transcript_lines(lines) ==
    IF lines = <<>> THEN <<>>
    ELSE IF skipped(Head(lines)) THEN transcript_lines(Tail(lines))
    ELSE <<strip(Head(lines))>> \o transcript_lines(Tail(lines))

\* the second loop (lines 93-98): drop a line equal to the last one kept
RECURSIVE unique_lines(_, _)
unique_lines(lines, last_line) ==
    IF lines = <<>> THEN <<>>
    ELSE IF Head(lines) # last_line
         THEN <<Head(lines)>> \o unique_lines(Tail(lines), Head(lines))
         ELSE unique_lines(Tail(lines), last_line)

\* '\n'.join(lines)
RECURSIVE join(_)
join(lines) ==
    IF lines = <<>> THEN <<>>
    ELSE IF Len(lines) = 1 THEN lines[1]
    ELSE lines[1] \o <<"\n">> \o join(Tail(lines))

clean_srt(srt_text) ==
    join(unique_lines(transcript_lines(split(srt_text)), <<>>))

----------------------------------------------------------------------------
(* The state before anything has run. *)

Pending == [kind |-> "pending", val |-> <<>>]

\* no request received yet, nothing returned yet
NoData == [youtube_url |-> None, youtube_api_key |-> None,
           gemini_api_key |-> None]
NoResponse == [status |-> 0, kind |-> "none", body |-> <<>>]

PipelineIdle ==
    /\ pc = "idle"
    /\ data = NoData
    /\ video_id = None
    /\ caption_items = <<>>
    /\ track_id = None
    /\ srt_data = None
    /\ transcript_text = None
    /\ response = NoResponse
    /\ trace = <<>>

ExtractIdle == url_in = <<>> /\ id_out = Pending
CleanIdle == srt_in = <<>> /\ clean_once = Pending /\ clean_twice = Pending

\* all sequences over S of length lo..hi
SeqsOf(S, lo, hi) == UNION {[1..n -> S] : n \in lo..hi}

----------------------------------------------------------------------------
(* Messages.  A message is a sequence of text pieces; an f-string is the   *)
(* concatenation of its pieces, the interpolated message among them.       *)

\* line 168
MSG_REQUIRED == <<"required fields are missing">>
\* line 173
MSG_INVALID_URL == <<"not a valid YouTube video URL">>
\* line 66
MSG_NO_TRACK == <<"no manual or auto-generated captions in the language">>
\* line 185
MSG_EMPTY == <<"no text could be extracted from the transcript data">>

\* an exception raised by a service call: HttpError carries resp.status and
\* error_details, every exception has its str()
Exc(status, error_details, str) ==
    [status |-> status, error_details |-> error_details, str |-> str]
NoExc == Exc(0, <<>>, <<>>)

\* line 75
error_message(e) ==
    IF e.error_details # <<>> THEN e.error_details[1].message ELSE e.str

http_error_message_same_403_404(e) ==
    IF e.status = 403 \/ e.status = 404
    THEN <<"YouTube API error(403): ",
           "the API key is invalid or the quota limit was reached", " (">>
         \o error_message(e) \o <<")">>
    ELSE <<"YouTube API error: ">> \o error_message(e)

\* lines 73-78: the message get_transcript returns for an HttpError
http_error_message(e) ==
    IF e.status = 403
    THEN <<"YouTube API error(403): ",
           "the API key is invalid or the quota limit was reached", " (">>
         \o error_message(e) \o <<")">>
    ELSE IF e.status = 404
    THEN <<"YouTube API error(404): ",
           "the video or its captions were not found", " (">>
         \o error_message(e) \o <<")">>
    ELSE <<"YouTube API error: ">> \o error_message(e)

\* lines 79-80
unexpected_message(e) == <<"unexpected error (YouTube API): ">> \o e.str

\* lines 141-142
gemini_message(e) == <<"Gemini API error: ">> \o e.str

\* the error get_transcript returns for an exception of either kind
transcript_error(kind, e) ==
    IF kind = "http_error" THEN http_error_message(e) ELSE unexpected_message(e)

----------------------------------------------------------------------------
(* get_transcript: the selection of a caption track. *)

\* the default of the lang parameter (line 37)
lang == <<"j","a">>

\* s.startswith(prefix)
startswith(s, prefix) == MatchAt(prefix, s, 1)

\* the first search (lines 49-53) from item k on: the id of the first item
\* whose snippet.language is the language; KeyError at an item without a
\* snippet met before that
RECURSIVE first_search(_, _)
first_search(items, k) ==
    IF k > Len(items) THEN None
    ELSE IF ~items[k].has_snippet THEN Raised("KeyError")
    ELSE IF items[k].language = lang THEN Str(items[k].id)
    ELSE first_search(items, k + 1)

\* the second search (lines 56-62): the first item whose id starts with
\* 'a.' + lang
RECURSIVE second_search(_, _)
second_search(items, k) ==
    IF k > Len(items) THEN None
    ELSE IF startswith(items[k].id, <<"a", ".">> \o lang) THEN Str(items[k].id)
    ELSE second_search(items, k + 1)

\* lines 47-62
select_track(items) ==
    LET first == first_search(items, 1)
    IN  IF first.kind = "raise" \/ truthy(first) THEN first
        ELSE second_search(items, 1)

----------------------------------------------------------------------------
(* handle_analysis *)

all_required_but_youtube_key(d) ==
    truthy(d.youtube_url) /\ truthy(d.gemini_api_key)

\* line 167: all([youtube_url, youtube_api_key, gemini_api_key])
all_required(d) ==
    /\ truthy(d.youtube_url)
    /\ truthy(d.youtube_api_key)
    /\ truthy(d.gemini_api_key)

\* jsonify({"error": msg}), status
json_error(msg, status) ==
    [status |-> status, kind |-> "json", body |-> [error |-> msg]]

\* lines 196-199: jsonify of the two results, with the default status
json_success(transcript, html) ==
    [status |-> 200, kind |-> "json",
     body |-> [transcript |-> transcript, analysis_html |-> html]]

\* an exception leaves handle_analysis: the framework answers with its
\* internal-server-error page, no JSON body
unhandled(name) ==
    [status |-> 500, kind |-> "unhandled", body |-> [exception |-> name]]

\* line 168
required_response == json_error(MSG_REQUIRED, 400)
\* line 173
invalid_url_response == json_error(MSG_INVALID_URL, 400)

transcript_error_response_400(error) == json_error(error, 400)

\* line 180
transcript_error_response(error) == json_error(error, 500)
\* line 185
empty_response == json_error(MSG_EMPTY, 500)
\* line 192
gemini_error_response(error) == json_error(error, 500)

after_transcript_error_retry == "caption_list"

\* line 180: the handler returns, the request is over
after_transcript_error == "done"

\* one entry of the trace: a stage or network call, how it ended, and the
\* exception it ended with
Event(op, kind, e) == [op |-> op, kind |-> kind, exc |-> e]

----------------------------------------------------------------------------
(* What the caller and the two services may send. *)

UrlSamples == {
    <<"h","t","t","p","s",":","/","/","w","w","w",".","y","o","u","t","u","b",
      "e",".","c","o","m","/","w","a","t","c","h","?","v","=","a","b","c">>,
    <<"h","t","t","p","s",":","/","/","y","o","u","t","u",".","b","e","/",
      "a","b","c">>,
    <<"h","t","t","p","s",":","/","/","w","w","w",".","y","o","u","t","u","b",
      "e",".","c","o","m","/","e","m","b","e","d","/","a","b","c">>,
    <<"h","e","l","l","o">> }

FieldValues(S) == {None, Str(<<>>)} \cup {Str(x) : x \in S}

Requests ==
    [youtube_url : FieldValues(UrlSamples),
     youtube_api_key : FieldValues({<<"K","1">>}),
     gemini_api_key : FieldValues({<<"K","2">>})]

TrackIds == { <<"a",".","j","a">>, <<"a",".","e","n">>, <<"m","1">> }
Languages == { <<"j","a">>, <<"e","n">> }

\* a caption resource of the list response; one without a snippet is a
\* malformed response
Tracks ==
    {[id |-> i, has_snippet |-> TRUE, language |-> l] :
        i \in TrackIds, l \in Languages}
    \cup {[id |-> i, has_snippet |-> FALSE, language |-> <<>>] : i \in TrackIds}

UpstreamMessages == { <<"quotaExceeded">>, <<"captionNotFound">> }

HttpErrors ==
    {Exc(st, d, <<"<HttpError>">>) :
        st \in {400, 403, 404},
        d \in {<<>>} \cup {<<[message |-> m]>> : m \in UpstreamMessages}}

Exceptions == {Exc(0, <<>>, <<"timed out">>)}

Failures ==
    {[kind |-> "http_error", exc |-> e] : e \in HttpErrors}
    \cup {[kind |-> "exception", exc |-> e] : e \in Exceptions}

SrtSamples == {
    <<>>,
    <<"1","\n","0","-","-",">","1","\n">>,
    <<"1","\n","0","-","-",">","1","\n","a","\n","a","\n">>,
    <<"1","\r","\n","0","-","-",">","1","\r","\n","a","\r","\n">>,
    <<"a","\n","b","\n","a">> }

HtmlSamples == { <<>>, <<"<h1>","a","</h1>">> }

Init ==
    /\ PipelineIdle
    /\ ExtractIdle
    /\ CleanIdle

\* lines 160-173: the body is read and checked, the identifier extracted
Receive ==
    /\ pc = "idle"
    /\ \E d \in Requests :
        /\ data' = d
        /\ IF ~all_required(d)
           THEN /\ response' = required_response
                /\ pc' = "done"
                /\ UNCHANGED <<video_id, trace>>
           ELSE LET v == get_video_id(d.youtube_url.val)
                IN  /\ trace' = Append(trace, Event("get_video_id", v.kind, NoExc))
                    /\ IF v.kind = "raise"
                       THEN /\ response' = unhandled(v.val)
                            /\ pc' = "done"
                            /\ UNCHANGED video_id
                       ELSE IF ~truthy(v)
                       THEN /\ response' = invalid_url_response
                            /\ pc' = "done"
                            /\ video_id' = v
                       ELSE /\ pc' = "caption_list"
                            /\ video_id' = v
                            /\ UNCHANGED response
    /\ UNCHANGED <<caption_items, track_id, srt_data, transcript_text,
                   extract_vars, clean_vars>>

\* get_transcript returned (None, error); lines 178-180
TranscriptFails(error) ==
    /\ response' = transcript_error_response(error)
    /\ pc' = after_transcript_error

\* lines 41-66: captions().list(...).execute() and the choice of a track
CaptionList ==
    /\ pc = "caption_list"
    /\ \/ \E items \in SeqsOf(Tracks, 0, MaxTracks) :
            LET selected == select_track(items)
            IN  /\ caption_items' = items
                /\ IF selected.kind = "raise"
                   THEN /\ trace' = Append(trace,
                               Event("captions.list", "malformed", NoExc))
                        /\ TranscriptFails(
                               unexpected_message(Exc(0, <<>>, <<"'snippet'">>)))
                        /\ UNCHANGED track_id
                   ELSE /\ trace' = Append(trace,
                               Event("captions.list", "ok", NoExc))
                        /\ track_id' = selected
                        /\ IF ~truthy(selected)
                           THEN TranscriptFails(MSG_NO_TRACK)
                           ELSE pc' = "caption_download" /\ UNCHANGED response
       \/ \E f \in Failures :
            /\ trace' = Append(trace, Event("captions.list", f.kind, f.exc))
            /\ TranscriptFails(transcript_error(f.kind, f.exc))
            /\ UNCHANGED <<caption_items, track_id>>
    /\ UNCHANGED <<data, video_id, srt_data, transcript_text,
                   extract_vars, clean_vars>>

\* lines 69-71: captions().download(...).execute(); then lines 183-185,
\* the cleaning of what it returned
CaptionDownload ==
    /\ pc = "caption_download"
    /\ \/ \E text \in SrtSamples :
            LET cleaned == clean_srt(text)
            IN  /\ srt_data' = Str(text)
                /\ transcript_text' = Str(cleaned)
                /\ trace' = trace \o
                      << Event("captions.download", "ok", NoExc),
                         Event("clean_srt",
                               IF cleaned = <<>> THEN "empty" ELSE "ok", NoExc) >>
                /\ IF cleaned = <<>>
                   THEN response' = empty_response /\ pc' = "done"
                   ELSE pc' = "generate" /\ UNCHANGED response
       \/ \E f \in Failures :
            /\ trace' = Append(trace, Event("captions.download", f.kind, f.exc))
            /\ TranscriptFails(transcript_error(f.kind, f.exc))
            /\ UNCHANGED <<srt_data, transcript_text>>
    /\ UNCHANGED <<data, video_id, caption_items, track_id,
                   extract_vars, clean_vars>>

\* lines 103-142: model.generate_content(...); then lines 190-199
Generate ==
    /\ pc = "generate"
    /\ \/ \E html \in HtmlSamples :
            /\ trace' = Append(trace, Event("generate_content", "ok", NoExc))
            /\ response' = json_success(transcript_text.val, html)
       \/ \E e \in Exceptions :
            /\ trace' = Append(trace, Event("generate_content", "exception", e))
            /\ response' = gemini_error_response(gemini_message(e))
    /\ pc' = "done"
    /\ UNCHANGED <<data, video_id, caption_items, track_id, srt_data,
                   transcript_text, extract_vars, clean_vars>>

Next == Receive \/ CaptionList \/ CaptionDownload \/ Generate

Spec == Init /\ [][Next]_vars

----------------------------------------------------------------------------
(* get_video_id on its own: every URL of the supported shapes, and some    *)
(* strings of none of them.                                                *)

IdSample == {"a", "Z", "0", "_", "-"}
Ids == SeqsOf(IdSample, 1, MaxIdLen)

WwwHost == <<"h","t","t","p","s",":","/","/","w","w","w",".","y","o","u","t",
             "u","b","e",".","c","o","m">>
Https == <<"h","t","t","p","s",":","/","/">>
Suffixes == { <<>>, <<"&","t","=","1">>, <<"?","t","=","1">> }
Unrelated == { <<>>,
               <<"h","e","l","l","o">>,
               WwwHost \o <<"/">>,
               WwwHost \o <<"/","w","a","t","c","h">>,
               WwwHost \o <<"/","w","a","t","c","h","?","v","=">>,
               Https \o <<"y","o","u","t","u",".","b","e","/">>,
               WwwHost \o <<"/","e","m","b","e","d","/">>,
               WwwHost \o <<"/","p","l","a","y","l","i","s","t","?","l","i",
                            "s","t","=","a">> }

ShapeUrl(shape, id, suffix) ==
    CASE shape = "watch" ->
            WwwHost \o <<"/","w","a","t","c","h","?","v","=">> \o id \o suffix
      [] shape = "short" ->
            Https \o <<"y","o","u","t","u",".","b","e","/">> \o id \o suffix
      [] shape = "embed" ->
            WwwHost \o <<"/","e","m","b","e","d","/">> \o id \o suffix
      [] shape = "v" ->
            WwwHost \o <<"/","v","/">> \o id \o suffix

Shapes == {"watch", "short", "embed", "v"}

ExtractInputs ==
    {[shape |-> sh, id |-> i, url |-> ShapeUrl(sh, i, suf)] :
        sh \in Shapes, i \in Ids, suf \in Suffixes}
    \cup {[shape |-> "other", id |-> <<>>, url |-> u] : u \in Unrelated}

InitExtract ==
    /\ PipelineIdle
    /\ CleanIdle
    /\ url_in \in ExtractInputs
    /\ id_out = Pending

Extract ==
    /\ id_out = Pending
    /\ id_out' = get_video_id(url_in.url)
    /\ UNCHANGED <<url_in, pipeline_vars, clean_vars>>

NextExtract == Extract

SpecExtract == InitExtract /\ [][NextExtract]_vars

----------------------------------------------------------------------------
(* clean_srt on its own, run once and then again on its own output. *)

TextAlphabet == {"1", "a", " ", "\n", "-", ">"}
Texts == SeqsOf(TextAlphabet, 0, MaxTextLen)

InitClean ==
    /\ PipelineIdle
    /\ ExtractIdle
    /\ srt_in \in Texts
    /\ clean_once = Pending
    /\ clean_twice = Pending

Clean ==
    /\ clean_once = Pending
    /\ clean_once' = Str(clean_srt(srt_in))
    /\ UNCHANGED <<srt_in, clean_twice, pipeline_vars, extract_vars>>

CleanAgain ==
    /\ clean_once # Pending
    /\ clean_twice = Pending
    /\ clean_twice' = Str(clean_srt(clean_once.val))
    /\ UNCHANGED <<srt_in, clean_once, pipeline_vars, extract_vars>>

NextClean == Clean \/ CleanAgain

SpecClean == InitClean /\ [][NextClean]_vars

----------------------------------------------------------------------------
(* Claims about get_video_id. *)

\* C1: for every URL of the watch-query, short-link and embed-path shapes
\* get_video_id returns exactly the identifier the URL embeds, and for a
\* string that matches none of the three patterns it returns None.
C1_ExtractReturnsEmbeddedId ==
    id_out # Pending =>
        IF url_in.shape = "other" THEN id_out = None
        ELSE id_out = Str(url_in.id)

\* What get_video_id does shape by shape: the watch-query and embed-path
\* shapes give the identifier, a string of no shape gives None, and the
\* short-link shape raises IndexError (its pattern has one group, and
\* line 34 asks for group 2 because the pattern's text holds "youtu\.be",
\* not "youtu.be").
ExtractByShape ==
    id_out # Pending =>
        CASE url_in.shape = "other" -> id_out = None
          [] url_in.shape = "short" -> id_out = Raised("IndexError")
          [] OTHER -> id_out = Str(url_in.id)

----------------------------------------------------------------------------
(* Claims about clean_srt. *)

\* the lines of a text, trimmed
RECURSIVE trimmed(_)
trimmed(lines) ==
    IF lines = <<>> THEN <<>> ELSE <<strip(Head(lines))>> \o trimmed(Tail(lines))

\* a line of the untrimmed text holds the time-range marker iff its trimmed
\* form does, so the three discard rules are stated on the trimmed line
Discarded(t) == isdigit(t) \/ Contains(<<"-","-",">">>, t) \/ t = <<>>
Retained(t) == ~Discarded(t)

\* the retained lines of which none equals its immediate predecessor
Collapsed(kept) ==
    LET Keep(k) == k = 1 \/ kept[k] # kept[k - 1]
        F[k \in 0..Len(kept)] ==
            IF k = 0 THEN <<>>
            ELSE IF Keep(k) THEN Append(F[k - 1], kept[k]) ELSE F[k - 1]
    IN  F[Len(kept)]

\* the output the cleaner is specified to give
CleanedAsSpecified(text) ==
    join(Collapsed(SelectSeq(trimmed(split(text)), Retained)))

\* C6: clean_srt is idempotent: cleaning its own output changes nothing.
C6_CleanIdempotent ==
    clean_twice # Pending => clean_twice = clean_once

\* C7: the output of clean_srt is the trimmed input lines, in order, without
\* the lines that after trimming are all digits, hold '-->' or are empty,
\* and with a retained line dropped only when it equals the retained line
\* immediately before it, joined with newlines.
C7_CleanOutput ==
    clean_once # Pending => clean_once.val = CleanedAsSpecified(srt_in)

\* a digit-only line was never padded with whitespace
NoPaddedDigits(text) ==
    \A k \in 1..Len(split(text)) :
        isdigit(strip(split(text)[k])) => isdigit(split(text)[k])

\* Where the cleaner and its specification part: only on texts with a line
\* that is all digits once trimmed but not before.
CleanOutputUnlessPaddedDigits ==
    (clean_once # Pending /\ NoPaddedDigits(srt_in)) =>
        clean_once.val = CleanedAsSpecified(srt_in)

\* clean_srt is idempotent on every text without such a line
CleanIdempotentUnlessPaddedDigits ==
    (clean_twice # Pending /\ NoPaddedDigits(srt_in)) => clean_twice = clean_once

----------------------------------------------------------------------------
(* Claims about handle_analysis. *)

NetworkOps == {"captions.list", "captions.download", "generate_content"}
StageOrder == <<"get_video_id", "captions.list", "captions.download",
                "clean_srt", "generate_content">>

\* how many times op appears in the trace
Count(op) == Cardinality({i \in DOMAIN trace : trace[i].op = op})

\* a stage or call that did not succeed
Failed(ev) == ev.kind \notin {"ok", "str"}

\* the body has a required field that is absent or empty
Malformed(d) ==
    \E f \in {"youtube_url", "youtube_api_key", "gemini_api_key"} :
        d[f].kind # "str" \/ d[f].val = <<>>

\* the body lacks a required field
MissingField(d) ==
    \E f \in {"youtube_url", "youtube_api_key", "gemini_api_key"} : d[f] = None

IsJsonError == response.kind = "json" /\ DOMAIN response.body = {"error"}
IsJsonSuccess ==
    response.kind = "json"
    /\ DOMAIN response.body = {"transcript", "analysis_html"}

\* the message of the failure a trace entry records
FailureMessage(ev) ==
    CASE ev.op = "get_video_id" -> MSG_INVALID_URL
      [] ev.op = "clean_srt" -> MSG_EMPTY
      [] ev.op = "generate_content" -> gemini_message(ev.exc)
      [] ev.kind = "http_error" -> http_error_message(ev.exc)
      [] ev.kind = "exception" -> unexpected_message(ev.exc)
      [] ev.kind = "malformed" ->
            unexpected_message(Exc(0, <<>>, <<"'snippet'">>))
      [] OTHER -> MSG_NO_TRACK

\* the list call succeeded and no track of the language was found
NoTrackFound ==
    /\ pc = "done"
    /\ Len(trace) = 2
    /\ trace[2].kind = "ok"
    /\ ~truthy(track_id)

\* C2: the stages run in the order extract, caption list, caption
\* download, clean, generation call; a stage that fails is the last one
\* run, and the response then carries that failure's message, unchanged
\* and alone, with no transcript or analysis_html field.
C2_StagesInOrderShortCircuit ==
    /\ \A i \in DOMAIN trace : i <= Len(StageOrder) /\ trace[i].op = StageOrder[i]
    /\ \A i \in DOMAIN trace :
          Failed(trace[i]) =>
              /\ i = Len(trace)
              /\ pc = "done"
              /\ IsJsonError
              /\ response.body.error = FailureMessage(trace[i])
    /\ NoTrackFound => IsJsonError /\ response.body.error = MSG_NO_TRACK
    /\ (pc = "done" /\ Len(trace) < Len(StageOrder)) => ~IsJsonSuccess

\* The same with the one exception set apart: whenever no stage raises,
\* the stages run in order and the first failure ends the request with its
\* message; when get_video_id raises, no later stage runs either.
ShortCircuitWhenNoStageRaises ==
    /\ \A i \in DOMAIN trace : i <= Len(StageOrder) /\ trace[i].op = StageOrder[i]
    /\ \A i \in DOMAIN trace :
          Failed(trace[i]) =>
              /\ i = Len(trace)
              /\ pc = "done"
              /\ ~IsJsonSuccess
              /\ trace[i].kind # "raise" =>
                    /\ IsJsonError
                    /\ response.body.error = FailureMessage(trace[i])
    /\ NoTrackFound => IsJsonError /\ response.body.error = MSG_NO_TRACK
    /\ (pc = "done" /\ Len(trace) < Len(StageOrder)) => ~IsJsonSuccess

\* C3: for every request that carries the three required fields and every
\* outcome of the services, handle_analysis ends by returning the success
\* JSON or a JSON body with a single error field; no stage raises.
C3_NoStageRaises ==
    /\ \A i \in DOMAIN trace : trace[i].kind # "raise"
    /\ (pc = "done" /\ ~MissingField(data)) => IsJsonError \/ IsJsonSuccess

\* C4: if a required field is missing from the body, handle_analysis
\* returns status 400 with the missing-required-fields message, and no
\* network call is made in that request.
C4_MissingFieldRejected ==
    (pc # "idle" /\ MissingField(data)) =>
        /\ pc = "done"
        /\ response.status = 400
        /\ IsJsonError
        /\ response.body.error = MSG_REQUIRED
        /\ \A i \in DOMAIN trace : trace[i].op \notin NetworkOps

C4_Witness ==
    /\ pc = "done"
    /\ data.youtube_api_key = None
    /\ data.youtube_url.kind = "str" /\ data.youtube_url.val # <<>>
    /\ data.gemini_api_key.kind = "str" /\ data.gemini_api_key.val # <<>>
    /\ response.status = 400

\* a track counts as auto-generated for the language by its id (line 59)
AutoGenerated(t) == startswith(t.id, <<"a", ".">> \o lang)
ManualInLanguage(t) ==
    t.has_snippet /\ t.language = lang /\ ~AutoGenerated(t)

\* get_transcript made its choice among the tracks of a list response
SelectionMade == Len(trace) >= 2 /\ trace[2].kind = "ok"

\* C5: get_transcript selects a track of the language that is not
\* auto-generated whenever the list has one, even after an auto-generated
\* one; an auto-generated track only when the list has no manual one; and
\* it reports NotFound only when the list has neither.
C5_ManualTrackPreferred ==
    SelectionMade =>
        LET manual == {k \in DOMAIN caption_items :
                          ManualInLanguage(caption_items[k])}
            auto == {k \in DOMAIN caption_items :
                          AutoGenerated(caption_items[k])}
        IN  /\ manual # {} =>
                  \E k \in manual : track_id = Str(caption_items[k].id)
            /\ (manual = {} /\ auto # {}) =>
                  \E k \in auto : track_id = Str(caption_items[k].id)
            /\ track_id = None <=> (manual = {} /\ auto = {})

\* What the selection does: the first track whose language tag is the
\* language, auto-generated or not; failing that the first auto-generated
\* one; NotFound only when there is neither.
SelectsFirstOfLanguage ==
    SelectionMade =>
        LET tagged == {k \in DOMAIN caption_items :
                          caption_items[k].language = lang}
            auto == {k \in DOMAIN caption_items :
                          AutoGenerated(caption_items[k])}
        IN  /\ tagged # {} =>
                  \E k \in tagged :
                      /\ track_id = Str(caption_items[k].id)
                      /\ \A j \in tagged : k <= j
            /\ (tagged = {} /\ auto # {}) =>
                  \E k \in auto :
                      /\ track_id = Str(caption_items[k].id)
                      /\ \A j \in auto : k <= j
            /\ track_id = None <=> (tagged = {} /\ auto = {})

\* C8: a request issues the caption-list call exactly once when
\* get_transcript runs, the caption-download call exactly once and only
\* when a track was selected, the generation call exactly once when
\* analyze_with_gemini runs; nothing is repeated after a failure, so at
\* most three network calls are made.
C8_EachCallAtMostOnce ==
    /\ Count("captions.list") =
          (IF truthy(video_id) /\ pc # "caption_list" THEN 1 ELSE 0)
    /\ Count("captions.download") =
          (IF truthy(track_id) /\ pc # "caption_download" THEN 1 ELSE 0)
    /\ Count("generate_content") =
          (IF truthy(transcript_text) /\ pc = "done" THEN 1 ELSE 0)
    /\ Cardinality({i \in DOMAIN trace : trace[i].op \in NetworkOps}) <= 3

C8_Witness ==
    /\ pc = "done"
    /\ Len(trace) = 3
    /\ trace[3].op = "captions.download"
    /\ trace[3].kind = "http_error"
    /\ Count("captions.list") = 1
    /\ Count("captions.download") = 1
    /\ Count("generate_content") = 0

\* a failure of the resolver, the cleaner or the analysis client
LaterStageFailed ==
    \/ \E i \in DOMAIN trace :
          Failed(trace[i]) /\ trace[i].op # "get_video_id"
    \/ NoTrackFound

\* the extractor found no identifier in the URL
InvalidVideoReference ==
    Len(trace) = 1 /\ trace[1].op = "get_video_id" /\ trace[1].kind = "none"

\* C9: status 400 is returned only for a malformed request (a missing
\* required field), and every pipeline failure, the extractor's included,
\* is returned with status 500.
C9_ClientErrorOnlyForMalformed ==
    pc = "done" =>
        /\ response.status = 400 => Malformed(data)
        /\ (InvalidVideoReference \/ LaterStageFailed) => response.status = 500

\* C9 as amended: status 400 is returned exactly for a malformed request
\* and for a URL in which the extractor finds no identifier; every failure
\* of the resolver, the cleaner and the analysis client is returned with
\* status 500.
C9_ClientErrorForMalformedOrInvalidUrl ==
    pc = "done" =>
        /\ response.status = 400 <=> (Malformed(data) \/ InvalidVideoReference)
        /\ LaterStageFailed => response.status = 500

C9_Witness ==
    /\ pc = "done"
    /\ ~Malformed(data)
    /\ InvalidVideoReference
    /\ response.status = 400
    /\ response.body.error = MSG_INVALID_URL

\* the categories a resolver message falls in, read off the message alone
Mentions(msg, piece) == \E i \in DOMAIN msg : msg[i] = piece
Categories(msg) ==
    {c \in {"auth_or_quota", "not_found", "generic", "unexpected"} :
        CASE c = "auth_or_quota" ->
                Mentions(msg, "the API key is invalid or the quota limit was reached")
          [] c = "not_found" ->
                Mentions(msg, "the video or its captions were not found")
          [] c = "generic" -> msg # <<>> /\ Head(msg) = "YouTube API error: "
          [] c = "unexpected" ->
                msg # <<>> /\ Head(msg) = "unexpected error (YouTube API): "}

\* the message the service reported with an HttpError
Underlying(e) ==
    IF e.error_details = <<>> THEN e.str ELSE e.error_details[1].message

\* a caption call that ended in an exception
ResolverFailedAt(i) ==
    /\ i \in DOMAIN trace
    /\ trace[i].op \in {"captions.list", "captions.download"}
    /\ trace[i].kind \in {"http_error", "exception", "malformed"}

\* C10: a 403 of the captioning service gives a status-500 response whose
\* message mentions an invalid API key or the quota limit, a 404 gives a
\* different message saying the video or captions were not found, any other
\* reported error gives a generic message that keeps the underlying
\* message, an unexpected local failure gives a fourth message; each time
\* the payload is null and no download or generation call follows.
C10_ResolverFailuresDistinct ==
    \A i \in DOMAIN trace :
        ResolverFailedAt(i) =>
            /\ i = Len(trace)
            /\ pc = "done"
            /\ srt_data = None
            /\ Count("generate_content") = 0
            /\ trace[i].op = "captions.list" => Count("captions.download") = 0
            /\ response.status = 500
            /\ IsJsonError
            /\ LET msg == response.body.error
                   e == trace[i].exc
               IN  CASE trace[i].kind = "http_error" /\ e.status = 403 ->
                          /\ Categories(msg) = {"auth_or_quota"}
                          /\ Mentions(msg, Underlying(e)[1])
                     [] trace[i].kind = "http_error" /\ e.status = 404 ->
                          /\ Categories(msg) = {"not_found"}
                          /\ Mentions(msg, Underlying(e)[1])
                     [] trace[i].kind = "http_error" ->
                          /\ Categories(msg) = {"generic"}
                          /\ Tail(msg) = Underlying(e)
                     [] OTHER -> Categories(msg) = {"unexpected"}

C10_Witness ==
    /\ pc = "done"
    /\ ResolverFailedAt(2)
    /\ trace[2].kind = "http_error"
    /\ trace[2].exc.status = 403
    /\ response.status = 500
    /\ Categories(response.body.error) = {"auth_or_quota"}

====
